---- MODULE Spec2Model ----
(***************************************************************************)
(* Telegram Mini-App bootstrap handshake of the front end:                 *)
(*   - TelegramWebApp (frontend/src/lib/telegram.ts), the host bridge and  *)
(*     the validation client;                                              *)
(*   - useTelegram (unnamed/part_001), the hook that runs a bootstrap pass *)
(*     on mount and on retryValidation();                                  *)
(*   - the earlier useTelegram draft without backend validation            *)
(*     (unnamed/part_000, second hook).                                    *)
(* Every synchronous stretch of JavaScript between two awaits is one       *)
(* action: the event loop never interleaves anything inside it.            *)
(***************************************************************************)
EXTENDS Integers, Sequences, FiniteSets, TLC

VARIABLES
    dev,            \* process.env.NODE_ENV === 'development'
    webApp,         \* TelegramWebApp.webApp: the host object captured at load
    mounted,        \* the hook's mount effect has run
    nPasses,        \* initializeTelegram() calls started so far
    pc,             \* per call: where the async function is suspended
    status,         \* per call: HTTP status of the response being read
    request,        \* per call: the Authorization header of the request sent
    ret,            \* per call: the value validateUser() resolved with
    user,           \* useState user
    inTelegram,     \* useState isInTelegram
    isValidated,    \* useState isValidated
    isLoading,      \* useState isLoading
    error,          \* useState error
    platformInfo,   \* useState platformInfo
    hostFlags,      \* what init() has told the host
    style,          \* the display variables written by applyTheme()
    call,           \* the last bridge operation called on its own
    hostLog,        \* per call: the bridge and host calls it made, in order
    windowHost,     \* window.Telegram.WebApp as it is now
    boot,           \* useBootstrap: its state and its load() calls
    auth            \* useAuthStore: user, tokens, isAuthenticated

vars == <<dev, webApp, mounted, nPasses, pc, status, request, ret, user,
          inTelegram, isValidated, isLoading, error, platformInfo,
          hostFlags, style, call,
                   hostLog, windowHost, boot, auth>>

hookState == <<user, inTelegram, isValidated, isLoading, error, platformInfo>>

----------------------------------------------------------------------------
(* Bounds *)

MaxRetries == 1

\* how many times in a row one bridge operation is called
MaxCalls == 2

\* how many load() calls of useBootstrap are followed
MaxLoads == 2

Loads == 1..MaxLoads

Passes == 1..(MaxRetries + 1)

----------------------------------------------------------------------------
(* Values *)

NoUser == [id |-> 0, first_name |-> "", username |-> "", src |-> "null"]

HostUser == [id |-> 42, first_name |-> "Ann", username |-> "ann", src |-> "host"]

BackendUsers ==
    { [id |-> 42, first_name |-> "Ann", username |-> "ann", src |-> "backend"],
      [id |-> 7, first_name |-> "Bob", username |-> "", src |-> "backend"] }

MockUser ==
    [id |-> 123456789, first_name |-> "Test User", username |-> "testuser", src |-> "mock"]

DebugUser ==
    [id |-> 123456789, first_name |-> "Debug User", username |-> "debuguser", src |-> "debug"]

DraftMockUser ==
    [id |-> 123456789, first_name |-> "Test", username |-> "testuser", src |-> "mock"]

NoError == "null"
ErrNotInTelegram == "App must be launched from Telegram"
ErrMissingInitData == "Telegram authorization data is missing"
ErrNoTelegramUser == "Could not get user data from Telegram"
ErrValidationDefault == "User validation error"
ErrBackendMessage == "hash mismatch"
ErrFailedToFetch == "Failed to fetch"
ErrJsonParse == "Unexpected token in JSON"
ErrTypeError == "Cannot read properties"
ErrDraftNoUser == "Could not get user data"
ErrDraftInit == "Telegram WebApp initialization error"

ServerError(s) ==
    CASE s = 401 -> "Server error: 401"
      [] s = 500 -> "Server error: 500"
      [] OTHER   -> "Server error"

InitError(m) ==
    CASE m = ErrTypeError -> "Initialization error: Cannot read properties"
      [] OTHER            -> "Initialization error: Unknown error"

Statuses == {200, 401, 500}

Payloads == { <<>>, <<"a">>, <<"b", "a">> }

NoReq == <<"none">>

----------------------------------------------------------------------------
(* The host object window.Telegram.WebApp, as the page finds it *)

ThemeKeys == {"bg_color", "text_color", "hint_color", "link_color",
              "button_color", "button_text_color", "secondary_bg_color"}

EmptyTheme == [k \in ThemeKeys |-> ""]

BgOnlyTheme == [EmptyTheme EXCEPT !["bg_color"] = "#123456"]

DarkTheme ==
    [k \in ThemeKeys |->
        CASE k = "bg_color"           -> "#17212b"
          [] k = "text_color"         -> "#f5f5f5"
          [] k = "hint_color"         -> "#708499"
          [] k = "link_color"         -> "#6ab3f3"
          [] k = "button_color"       -> "#5288c1"
          [] k = "button_text_color"  -> "#fefefe"
          [] OTHER                    -> "#232e3c"]

Themes == {EmptyTheme, BgOnlyTheme, DarkTheme}

NoHost ==
    [present |-> FALSE, initData |-> <<>>, unsafe |-> "undefined",
     themeDefined |-> FALSE, theme |-> EmptyTheme,
     platform |-> "", version |-> "", throws |-> FALSE]

PresentHosts ==
    { [present |-> TRUE, initData |-> d, unsafe |-> u,
       themeDefined |-> td, theme |-> t,
       platform |-> "ios", version |-> "7.0", throws |-> FALSE] :
        d \in Payloads, u \in {"undefined", "nouser", "user"},
        td \in BOOLEAN, t \in Themes }

Hosts == {NoHost} \cup {h \in PresentHosts : h.themeDefined \/ h.theme = EmptyTheme}

\* hosts whose methods (ready, showAlert, openTelegramLink, ...) throw
ThrowingHosts == { [h EXCEPT !.throws = TRUE] : h \in Hosts \ {NoHost} }

----------------------------------------------------------------------------
(* TelegramWebApp: the synchronous bridge operations *)

isInTelegram(w) == w.present /\ Len(w.initData) > 0

getInitDataPreview(w) ==
    IF ~w.present \/ w.initData = <<>> THEN <<>> ELSE SubSeq(w.initData, 1, 1)

getInitData(w) ==
    IF ~w.present \/ w.initData = <<>> THEN <<>> ELSE w.initData

\* getUser() either returns (threw = FALSE) or raises a TypeError, when the
\* host object has no initDataUnsafe to read .user from.
getUser(w) ==
    IF ~isInTelegram(w) THEN [threw |-> FALSE, value |-> NoUser]
    ELSE IF w.unsafe = "undefined" THEN [threw |-> TRUE, value |-> NoUser]
    ELSE IF w.unsafe = "nouser" THEN [threw |-> FALSE, value |-> NoUser]
    ELSE [threw |-> FALSE, value |-> HostUser]

getPlatformInfo(w) ==
    IF ~w.present
    THEN [platform |-> "web", version |-> "unknown", inTelegram |-> FALSE]
    ELSE [platform |-> IF w.platform = "" THEN "unknown" ELSE w.platform,
          version |-> IF w.version = "" THEN "unknown" ELSE w.version,
          inTelegram |-> isInTelegram(w)]

InitialPlatformInfo ==
    [platform |-> "unknown", version |-> "unknown", inTelegram |-> FALSE]

NoFlags == [ready |-> FALSE, expanded |-> FALSE, closingConfirmation |-> FALSE]

\* init(): ready(), expand(), enableClosingConfirmation() on a present host;
\* a throw of ready() is caught and the rest of the try is skipped
init(w, f) ==
    IF ~w.present \/ w.throws THEN f
    ELSE [ready |-> TRUE, expanded |-> TRUE, closingConfirmation |-> TRUE]

StyleVars == {"--tg-bg-color", "--tg-text-color", "--tg-hint-color",
              "--tg-link-color", "--tg-button-color", "--tg-button-text-color",
              "--tg-secondary-bg-color", "body.backgroundColor", "body.color"}

ThemeKeyOf(v) ==
    CASE v = "--tg-bg-color"            -> "bg_color"
      [] v = "--tg-text-color"          -> "text_color"
      [] v = "--tg-hint-color"          -> "hint_color"
      [] v = "--tg-link-color"          -> "link_color"
      [] v = "--tg-button-color"        -> "button_color"
      [] v = "--tg-button-text-color"   -> "button_text_color"
      [] v = "--tg-secondary-bg-color"  -> "secondary_bg_color"
      [] v = "body.backgroundColor"     -> "bg_color"
      [] OTHER                          -> "text_color"

ThemeDefaultSwapped(k) ==
    CASE k = "bg_color"           -> "#ffffff"
      [] k = "text_color"         -> "#000000"
      [] k = "hint_color"         -> "#0088cc"
      [] k = "link_color"         -> "#999999"
      [] k = "button_color"       -> "#0088cc"
      [] k = "button_text_color"  -> "#ffffff"
      [] OTHER                    -> "#f1f1f1"

ThemeDefault(k) ==
    CASE k = "bg_color"           -> "#ffffff"
      [] k = "text_color"         -> "#000000"
      [] k = "hint_color"         -> "#999999"
      [] k = "link_color"         -> "#0088cc"
      [] k = "button_color"       -> "#0088cc"
      [] k = "button_text_color"  -> "#ffffff"
      [] OTHER                    -> "#f1f1f1"

NoStyle == [v \in StyleVars |-> ""]

applyThemeFromComputed(w, st) ==
    IF ~w.present \/ ~w.themeDefined THEN st
    ELSE [v \in StyleVars |->
            IF v = "body.backgroundColor" THEN st["--tg-bg-color"]
            ELSE IF w.theme[ThemeKeyOf(v)] # "" THEN w.theme[ThemeKeyOf(v)]
            ELSE ThemeDefault(ThemeKeyOf(v))]

\* applyTheme(): a missing host returns at once; a missing themeParams throws
\* on the first read, inside the try, before anything is written.
applyTheme(w, st) ==
    IF ~w.present \/ ~w.themeDefined THEN st
    ELSE [v \in StyleVars |->
            IF w.theme[ThemeKeyOf(v)] # "" THEN w.theme[ThemeKeyOf(v)]
            ELSE ThemeDefault(ThemeKeyOf(v))]

----------------------------------------------------------------------------
(* TelegramWebApp.validateUser *)

Result(valid, u, e) == [kind |-> "object", valid |-> valid, user |-> u, error |-> e]

Failure(e) == Result("false", NoUser, e)

NoResult == [kind |-> "none", valid |-> "absent", user |-> NoUser, error |-> NoError]

\* JSON bodies a 2xx response can carry: the literal null, or an object whose
\* valid, user and error members are each present or not.
BodyNull == [kind |-> "null", valid |-> "absent", user |-> NoUser, error |-> NoError]

Bodies ==
    {BodyNull} \cup
    { Result(v, u, e) : v \in {"true", "false", "absent"},
                        u \in {NoUser} \cup BackendUsers,
                        e \in {NoError, ErrBackendMessage} }

\* The part of validateUser() before its fetch: NoResult means "go on to fetch".
validateUserEarly(w) ==
    IF ~isInTelegram(w) THEN Failure(ErrNotInTelegram)
    ELSE IF getInitData(w) = <<>> THEN Failure(ErrMissingInitData)
    ELSE NoResult

responseOk(s) == s >= 200 /\ s <= 299

----------------------------------------------------------------------------
(* useTelegram (unnamed/part_001): one initializeTelegram() call is a pass *)

Hook == [user |-> user, isValidated |-> isValidated,
         isLoading |-> isLoading, error |-> error]

Publish(h) ==
    /\ user' = h.user
    /\ isValidated' = h.isValidated
    /\ isLoading' = h.isLoading
    /\ error' = h.error

\* finally { setIsLoading(false) }
finallyBranch(h) == [h EXCEPT !.isLoading = FALSE]

catchBranchKeepsFlag(h, d, m) ==
    LET e == [h EXCEPT !.error = InitError(m)]
    IN  finallyBranch(IF d THEN [e EXCEPT !.user = DebugUser] ELSE e)

\* catch (err): the error is published; development also publishes a debug user
catchBranch(h, d, m) ==
    LET e == [h EXCEPT !.error = InitError(m)]
    IN  finallyBranch(IF d THEN [e EXCEPT !.user = DebugUser, !.isValidated = FALSE]
                      ELSE e)

handleValidationHostUser(h, d, v, telegramUser) ==
    IF v.kind = "null" THEN catchBranch(h, d, ErrTypeError)
    ELSE IF v.valid = "true" /\ v.user # NoUser
    THEN finallyBranch([h EXCEPT !.user = telegramUser, !.isValidated = TRUE])
    ELSE LET e == [h EXCEPT !.error = IF v.error # NoError THEN v.error
                                      ELSE ErrValidationDefault]
         IN  finallyBranch(IF d THEN [e EXCEPT !.user = telegramUser,
                                               !.isValidated = FALSE]
                           ELSE e)

\* the calls one pass makes on the bridge once its timer has fired, in the
\* order of the source: init() (which calls the host's ready, expand and
\* enableClosingConfirmation), isInTelegram(), applyTheme(), getInitData(),
\* getUser(), validateUser()
initCalls(w) ==
    IF ~w.present THEN <<>>
    ELSE IF w.throws THEN <<"ready">>
    ELSE <<"ready", "expand", "enableClosingConfirmation">>

passCallsThemeFirst(w) ==
    (IF ~isInTelegram(w) THEN <<>> ELSE <<"applyTheme">>) \o
    initCalls(w) \o <<"isInTelegram">> \o
    (IF ~isInTelegram(w) THEN <<>>
     ELSE <<"getInitData">> \o
          (IF getInitData(w) = <<>> THEN <<>>
           ELSE <<"getUser">> \o
                (IF getUser(w).threw \/ getUser(w).value = NoUser THEN <<>>
                 ELSE <<"validateUser">>)))

passCalls(w) ==
    initCalls(w) \o <<"isInTelegram">> \o
    (IF ~isInTelegram(w) THEN <<>>
     ELSE <<"applyTheme", "getInitData">> \o
          (IF getInitData(w) = <<>> THEN <<>>
           ELSE <<"getUser">> \o
                (IF getUser(w).threw \/ getUser(w).value = NoUser THEN <<>>
                 ELSE <<"validateUser">>)))

\* the lines after `await telegram.validateUser()`; v is the resolved value
handleValidation(h, d, v, telegramUser) ==
    IF v.kind = "null" THEN catchBranch(h, d, ErrTypeError)
    ELSE IF v.valid = "true" /\ v.user # NoUser
    THEN finallyBranch([h EXCEPT !.user = v.user, !.isValidated = TRUE])
    ELSE LET e == [h EXCEPT !.error = IF v.error # NoError THEN v.error
                                      ELSE ErrValidationDefault]
         IN  finallyBranch(IF d THEN [e EXCEPT !.user = telegramUser,
                                               !.isValidated = FALSE]
                           ELSE e)

notInTelegramBranchUngated(h, d) ==
    finallyBranch([h EXCEPT !.user = MockUser, !.isValidated = TRUE])

\* the branch taken when telegram.isInTelegram() is false
notInTelegramBranch(h, d) ==
    IF d THEN finallyBranch([h EXCEPT !.user = MockUser, !.isValidated = TRUE])
    ELSE finallyBranch([h EXCEPT !.error = ErrNotInTelegram])

\* initializeTelegram() up to its first await
StartPass(p) ==
    /\ pc[p] = "idle"
    /\ pc' = [pc EXCEPT ![p] = "timer"]
    /\ nPasses' = p
    /\ isLoading' = TRUE
    /\ error' = NoError
    /\ UNCHANGED <<dev, webApp, status, request, ret, user, inTelegram,
                   isValidated, platformInfo, hostFlags, style, call,
                   hostLog, windowHost, boot, auth>>

\* useEffect(() => { initializeTelegram() }, [])
Mount ==
    /\ ~mounted
    /\ mounted' = TRUE
    /\ StartPass(1)

retryValidation ==
    /\ mounted
    /\ nPasses < MaxRetries + 1
    /\ mounted' = mounted
    /\ StartPass(nPasses + 1)

\* the 100 ms timer fires: initializeTelegram() runs from telegram.init() to
\* its return or to the fetch inside validateUser()
AfterDelay(p) ==
    /\ pc[p] = "timer"
    /\ hostFlags' = init(webApp, hostFlags)
    /\ platformInfo' = getPlatformInfo(webApp)
    /\ inTelegram' = isInTelegram(webApp)
    /\ IF ~isInTelegram(webApp)
       THEN /\ Publish(notInTelegramBranch(Hook, dev))
            /\ pc' = [pc EXCEPT ![p] = "done"]
            /\ UNCHANGED <<style, request, ret>>
       ELSE /\ style' = applyTheme(webApp, style)
            /\ IF getInitData(webApp) = <<>>
               THEN /\ Publish(finallyBranch([Hook EXCEPT !.error = ErrMissingInitData]))
                    /\ pc' = [pc EXCEPT ![p] = "done"]
                    /\ UNCHANGED <<request, ret>>
               ELSE IF getUser(webApp).threw
               THEN /\ Publish(catchBranch(Hook, dev, ErrTypeError))
                    /\ pc' = [pc EXCEPT ![p] = "done"]
                    /\ UNCHANGED <<request, ret>>
               ELSE IF getUser(webApp).value = NoUser
               THEN /\ Publish(finallyBranch([Hook EXCEPT !.error = ErrNoTelegramUser]))
                    /\ pc' = [pc EXCEPT ![p] = "done"]
                    /\ UNCHANGED <<request, ret>>
               ELSE IF validateUserEarly(webApp) # NoResult
               THEN /\ Publish(handleValidation(Hook, dev, validateUserEarly(webApp),
                                                getUser(webApp).value))
                    /\ pc' = [pc EXCEPT ![p] = "done"]
                    /\ ret' = [ret EXCEPT ![p] = validateUserEarly(webApp)]
                    /\ UNCHANGED request
               ELSE /\ request' = [request EXCEPT ![p] = getInitData(webApp)]
                    /\ pc' = [pc EXCEPT ![p] = "fetch"]
                    /\ UNCHANGED <<user, isValidated, isLoading, error, ret>>
    /\ hostLog' = [hostLog EXCEPT ![p] = passCalls(webApp)]
    /\ UNCHANGED <<dev, webApp, mounted, nPasses, status, call,
                   windowHost, boot, auth>>

\* validateUser() resolves with v and the pass runs to its end
Settle(p, v) ==
    /\ ret' = [ret EXCEPT ![p] = v]
    /\ Publish(handleValidation(Hook, dev, v, getUser(webApp).value))
    /\ pc' = [pc EXCEPT ![p] = "done"]
    /\ UNCHANGED <<dev, webApp, mounted, nPasses, status, request,
                   inTelegram, platformInfo, hostFlags, style, call,
                   hostLog, windowHost, boot, auth>>

\* fetch() resolves with a response of status s
FetchResolves(p, s) ==
    /\ pc[p] = "fetch"
    /\ status' = [status EXCEPT ![p] = s]
    /\ pc' = [pc EXCEPT ![p] = IF responseOk(s) THEN "json" ELSE "text"]
    /\ UNCHANGED <<dev, webApp, mounted, nPasses, request, ret, hookState,
                   hostFlags, style, call,
                   hostLog, windowHost, boot, auth>>

\* fetch() rejects: validateUser's catch turns it into a result
FetchRejects(p) ==
    /\ pc[p] = "fetch"
    /\ Settle(p, Failure(ErrFailedToFetch))

\* response.text() of a non-2xx response resolves
TextRead(p) ==
    /\ pc[p] = "text"
    /\ Settle(p, Failure(ServerError(status[p])))

\* response.text() rejects
TextFails(p) ==
    /\ pc[p] = "text"
    /\ Settle(p, Failure(ErrFailedToFetch))

\* response.json() resolves with the parsed body b, which validateUser returns
JsonRead(p, b) ==
    /\ pc[p] = "json"
    /\ Settle(p, b)

\* response.json() rejects on a body that is not JSON
JsonFails(p) ==
    /\ pc[p] = "json"
    /\ Settle(p, Failure(ErrJsonParse))

\* useBootstrap before its effect has run; useAuthStore's initial state
NoBoot ==
    [initData |-> <<>>, data |-> 0, error |-> 0, loading |-> FALSE,
     nLoads |-> 0,
     pc |-> [k \in Loads |-> "idle"],
     sent |-> [k \in Loads |-> <<>>]]

\* the store's null user, as a record of the User shape
AuthNull == [id |-> "null", email |-> "", username |-> ""]

LoggedOut == [user |-> AuthNull, tokens |-> "null", isAuthenticated |-> FALSE]

NoCall == [op |-> "none", threw |-> FALSE, fallback |-> FALSE, n |-> 0]

\* the page as it is loaded, before any effect has run
Loaded ==
    /\ mounted = FALSE
    /\ nPasses = 0
    /\ pc = [p \in Passes |-> "idle"]
    /\ status = [p \in Passes |-> 0]
    /\ request = [p \in Passes |-> NoReq]
    /\ ret = [p \in Passes |-> NoResult]
    /\ user = NoUser
    /\ inTelegram = FALSE
    /\ isValidated = FALSE
    /\ isLoading = TRUE
    /\ error = NoError
    /\ platformInfo = InitialPlatformInfo
    /\ hostFlags = NoFlags
    /\ style = NoStyle
    /\ call = NoCall
    /\ hostLog = [p \in Passes |-> <<>>]
    /\ boot = NoBoot
    /\ auth = LoggedOut

Init ==
    /\ dev \in BOOLEAN
    /\ webApp \in Hosts
    /\ windowHost = webApp
    /\ Loaded

Next ==
    \/ Mount
    \/ retryValidation
    \/ \E p \in Passes : AfterDelay(p)
    \/ \E p \in Passes, s \in Statuses : FetchResolves(p, s)
    \/ \E p \in Passes : FetchRejects(p)
    \/ \E p \in Passes : TextRead(p)
    \/ \E p \in Passes : TextFails(p)
    \/ \E p \in Passes, b \in Bodies : JsonRead(p, b)
    \/ \E p \in Passes : JsonFails(p)

Spec == Init /\ [][Next]_vars

\* The timer always fires, and a request that is answered at all runs the pass
\* to its end: the event loop runs every continuation that is ready.
Answered(p) ==
    \/ \E s \in Statuses : FetchResolves(p, s)
    \/ FetchRejects(p)
    \/ TextRead(p)
    \/ TextFails(p)
    \/ \E b \in Bodies : JsonRead(p, b)
    \/ JsonFails(p)

FairSpec ==
    /\ Spec
    /\ \A p \in Passes : WF_vars(AfterDelay(p)) /\ WF_vars(Answered(p))

\* What the event loop itself guarantees: the timer fires and the body of a
\* response that has arrived is read. validateUser()'s fetch carries no signal
\* and no timeout, so nothing in the page makes an unanswered request end.
BodyRead(p) ==
    \/ TextRead(p)
    \/ TextFails(p)
    \/ \E b \in Bodies : JsonRead(p, b)
    \/ JsonFails(p)

SpecNoAnswer ==
    /\ Spec
    /\ \A p \in Passes : WF_vars(AfterDelay(p)) /\ WF_vars(BodyRead(p))

----------------------------------------------------------------------------
(* The component that uses the hook is torn down. The mount effect returns  *)
(* no cleanup and the hook keeps no mounted flag, so a suspended            *)
(* initializeTelegram() goes on and calls its setters when it resumes.      *)

Unmount ==
    /\ mounted
    /\ mounted' = FALSE
    /\ UNCHANGED <<dev, webApp, nPasses, pc, status, request, ret, hookState,
                   hostFlags, style, call,
                   hostLog, windowHost, boot, auth>>

NextTeardown ==
    \/ Next
    \/ Unmount

SpecTeardown == Init /\ [][NextTeardown]_vars

----------------------------------------------------------------------------
(* Mounting under reactStrictMode (frontend/next.config.js): a development  *)
(* build runs the mount effect, its (absent) cleanup and the effect again   *)
(* in one synchronous stretch, so initializeTelegram() is called twice; a   *)
(* production build runs the effect once. No retryValidation() here.        *)

StrictMount ==
    /\ ~mounted
    /\ mounted' = TRUE
    /\ IF dev
       THEN /\ pc' = [pc EXCEPT ![1] = "timer", ![2] = "timer"]
            /\ nPasses' = 2
       ELSE /\ pc' = [pc EXCEPT ![1] = "timer"]
            /\ nPasses' = 1
    /\ isLoading' = TRUE
    /\ error' = NoError
    /\ UNCHANGED <<dev, webApp, status, request, ret, user, inTelegram,
                   isValidated, platformInfo, hostFlags, style, call,
                   hostLog, windowHost, boot, auth>>

NextStrict ==
    \/ StrictMount
    \/ \E p \in Passes : AfterDelay(p)
    \/ \E p \in Passes, s \in Statuses : FetchResolves(p, s)
    \/ \E p \in Passes : FetchRejects(p)
    \/ \E p \in Passes : TextRead(p)
    \/ \E p \in Passes : TextFails(p)
    \/ \E p \in Passes, b \in Bodies : JsonRead(p, b)
    \/ \E p \in Passes : JsonFails(p)

SpecStrict == Init /\ [][NextStrict]_vars

----------------------------------------------------------------------------
(* The host object arrives late: window.Telegram.WebApp is set (the host's  *)
(* script finishes loading) after lib/telegram.ts was evaluated, so the     *)
(* module-level tg, and with it the singleton's webApp, stays null.         *)

HostArrives(h) ==
    /\ ~windowHost.present
    /\ windowHost' = h
    /\ UNCHANGED <<dev, webApp, mounted, nPasses, pc, status, request, ret,
                   hookState, hostFlags, style, call, hostLog, boot, auth>>

NextLate ==
    \/ Next
    \/ \E h \in Hosts \ {NoHost} : HostArrives(h)

SpecLate == Init /\ [][NextLate]_vars

----------------------------------------------------------------------------
(* The earlier useTelegram draft (unnamed/part_000, second hook): its effect *)
(* runs initializeTelegram() with no await in it, so the pass is one step.   *)

draftPass(h, w) ==
    IF ~isInTelegram(w)
    THEN finallyBranch([h EXCEPT !.user = DraftMockUser, !.isValidated = TRUE])
    ELSE IF getUser(w).threw
    THEN finallyBranch([h EXCEPT !.error = ErrDraftInit])
    ELSE IF getUser(w).value # NoUser
    THEN finallyBranch([h EXCEPT !.user = getUser(w).value, !.isValidated = TRUE])
    ELSE finallyBranch([h EXCEPT !.error = ErrDraftNoUser])

DraftMount ==
    /\ ~mounted
    /\ mounted' = TRUE
    /\ nPasses' = 1
    /\ pc' = [pc EXCEPT ![1] = "done"]
    /\ hostFlags' = init(webApp, hostFlags)
    /\ inTelegram' = isInTelegram(webApp)
    /\ style' = IF isInTelegram(webApp) THEN applyTheme(webApp, style) ELSE style
    /\ Publish(draftPass(Hook, webApp))
    /\ UNCHANGED <<dev, webApp, status, request, ret, platformInfo, call,
                   hostLog, windowHost, boot, auth>>

NextDraft == DraftMount

SpecDraft == Init /\ [][NextDraft]_vars

----------------------------------------------------------------------------
(* The page (frontend/src/app/page.tsx): what Home renders from the hook's  *)
(* state.                                                                   *)

Home ==
    IF isLoading THEN "LoadingScreen"
    ELSE IF error # NoError /\ dev
    THEN IF user # NoUser THEN "DebugPanel+MainContent" ELSE "DebugPanel"
    ELSE IF error # NoError \/ ~inTelegram THEN "ErrorScreen"
    ELSE IF user = NoUser THEN "ErrorScreen"
    ELSE "MainContent"

\* the rendered page carries the retry button (only the development panel)
RetryOffered == Home \in {"DebugPanel", "DebugPanel+MainContent"}

----------------------------------------------------------------------------
(* The useTelegram of frontend/src/hooks/useTelegram.ts: no backend call    *)
(* and no isValidated; the page reads the missing member as falsy.          *)

plainPass(h, w) ==
    IF ~isInTelegram(w) THEN finallyBranch([h EXCEPT !.error = ErrNotInTelegram])
    ELSE IF getUser(w).threw THEN finallyBranch([h EXCEPT !.error = ErrDraftInit])
    ELSE finallyBranch([h EXCEPT !.user = getUser(w).value])

PlainMount ==
    /\ ~mounted
    /\ mounted' = TRUE
    /\ nPasses' = 1
    /\ pc' = [pc EXCEPT ![1] = "done"]
    /\ hostFlags' = init(webApp, hostFlags)
    /\ inTelegram' = isInTelegram(webApp)
    /\ style' = IF isInTelegram(webApp) /\ ~getUser(webApp).threw
                THEN applyTheme(webApp, style) ELSE style
    /\ Publish(plainPass(Hook, webApp))
    /\ UNCHANGED <<dev, webApp, status, request, ret, platformInfo, call,
                   hostLog, windowHost, boot, auth>>

NextPlain == PlainMount

SpecPlain == Init /\ [][NextPlain]_vars

----------------------------------------------------------------------------
(* telegram.validateUser() called on its own, as any caller of the exported *)
(* singleton may: call p is the p-th call.                                  *)

Return(p, v) ==
    /\ ret' = [ret EXCEPT ![p] = v]
    /\ pc' = [pc EXCEPT ![p] = "returned"]
    /\ UNCHANGED <<dev, webApp, mounted, status, request, hookState,
                   hostFlags, style, call,
                   hostLog, windowHost, boot, auth>>

validateUser ==
    /\ nPasses < MaxRetries + 1
    /\ nPasses' = nPasses + 1
    /\ IF validateUserEarly(webApp) # NoResult
       THEN /\ ret' = [ret EXCEPT ![nPasses + 1] = validateUserEarly(webApp)]
            /\ pc' = [pc EXCEPT ![nPasses + 1] = "returned"]
            /\ UNCHANGED request
       ELSE /\ request' = [request EXCEPT ![nPasses + 1] = getInitData(webApp)]
            /\ pc' = [pc EXCEPT ![nPasses + 1] = "fetch"]
            /\ UNCHANGED ret
    /\ UNCHANGED <<dev, webApp, mounted, status, hookState, hostFlags, style,
                   call,
                   hostLog, windowHost, boot, auth>>

CallFetchRejects(p) ==
    /\ pc[p] = "fetch"
    /\ nPasses' = nPasses
    /\ Return(p, Failure(ErrFailedToFetch))

CallTextRead(p) ==
    /\ pc[p] = "text"
    /\ nPasses' = nPasses
    /\ Return(p, Failure(ServerError(status[p])))

CallTextFails(p) ==
    /\ pc[p] = "text"
    /\ nPasses' = nPasses
    /\ Return(p, Failure(ErrFailedToFetch))

CallJsonRead(p, b) ==
    /\ pc[p] = "json"
    /\ nPasses' = nPasses
    /\ Return(p, b)

CallJsonFails(p) ==
    /\ pc[p] = "json"
    /\ nPasses' = nPasses
    /\ Return(p, Failure(ErrJsonParse))

NextBridge ==
    \/ validateUser
    \/ \E p \in Passes, s \in Statuses : FetchResolves(p, s)
    \/ \E p \in Passes : CallFetchRejects(p)
    \/ \E p \in Passes : CallTextRead(p)
    \/ \E p \in Passes : CallTextFails(p)
    \/ \E p \in Passes, b \in Bodies : CallJsonRead(p, b)
    \/ \E p \in Passes : CallJsonFails(p)

SpecBridge == Init /\ [][NextBridge]_vars

----------------------------------------------------------------------------
(* The synchronous operations of the exported telegram singleton, called on *)
(* their own by any component (TelegramButton, click handlers, the hooks).  *)

BridgeOps == {"isInTelegram", "getInitData", "getUser", "getPlatformInfo",
              "init", "applyTheme", "openTelegramLink", "showAlert",
              "showConfirm", "close"}

\* the body of the operation raises on host w
opRaises(op, w) ==
    CASE op = "getUser"    -> getUser(w).threw
      [] op = "applyTheme" -> w.present /\ ~w.themeDefined
      [] op \in {"init", "openTelegramLink", "showAlert", "showConfirm", "close"}
                           -> w.present /\ w.throws
      [] OTHER             -> FALSE

\* the operation wraps its use of the host in try/catch
opGuarded(op) ==
    op \in {"init", "applyTheme", "openTelegramLink", "showAlert",
            "showConfirm", "close"}

\* the operation ends in its browser fallback: window.open, alert, confirm
opFallback(op, w) ==
    op \in {"openTelegramLink", "showAlert", "showConfirm"}
    /\ (~w.present \/ w.throws)

\* close(): disableClosingConfirmation() on a present host
close(w, f) ==
    IF ~w.present \/ w.throws THEN f
    ELSE [f EXCEPT !.closingConfirmation = FALSE]

bridgeCall(op) ==
    /\ call.op = op => call.n < MaxCalls
    /\ call' = [op |-> op,
                threw |-> opRaises(op, webApp) /\ ~opGuarded(op),
                fallback |-> opFallback(op, webApp),
                n |-> IF call.op = op THEN call.n + 1 ELSE 1]
    /\ hostFlags' = CASE op = "init"  -> init(webApp, hostFlags)
                      [] op = "close" -> close(webApp, hostFlags)
                      [] OTHER        -> hostFlags
    /\ style' = IF op = "applyTheme" THEN applyTheme(webApp, style) ELSE style
    /\ UNCHANGED <<dev, webApp, mounted, nPasses, pc, status, request, ret,
                   hookState, hostLog, windowHost, boot, auth>>

InitOps ==
    /\ dev \in BOOLEAN
    /\ webApp \in Hosts \cup ThrowingHosts
    /\ windowHost = webApp
    /\ Loaded

NextOps == \E op \in BridgeOps : bridgeCall(op)

SpecOps == InitOps /\ [][NextOps]_vars

----------------------------------------------------------------------------
(* useBootstrap (frontend/src/hooks/useBootstrap.ts). boot.data and         *)
(* boot.error hold the number of the load() call whose outcome they are, 0  *)
(* for null / undefined; boot.sent[k] is the initData call k captured.      *)

\* load() up to its await: call k is sent with the initData d of its closure
startLoad(k, d) ==
    boot' = [boot EXCEPT !.loading = TRUE, !.error = 0, !.nLoads = k,
                         !.pc[k] = "wait", !.sent[k] = d]

\* the caller renders the hook with another initData; the effect, whose
\* dependencies changed, calls the new load() when initData is not empty
BootInitData(d) ==
    /\ d # boot.initData
    /\ IF d = <<>>
       THEN boot' = [boot EXCEPT !.initData = d]
       ELSE /\ boot.nLoads < MaxLoads
            /\ boot' = [boot EXCEPT !.initData = d, !.loading = TRUE,
                                    !.error = 0, !.nLoads = boot.nLoads + 1,
                                    !.pc[boot.nLoads + 1] = "wait",
                                    !.sent[boot.nLoads + 1] = d]
    /\ UNCHANGED <<dev, webApp, mounted, nPasses, pc, status, request, ret,
                   hookState, hostFlags, style, call, hostLog, windowHost,
                   auth>>

\* refresh(): load() again; it returns at once while initData is empty
refresh ==
    /\ boot.initData # <<>>
    /\ boot.nLoads < MaxLoads
    /\ startLoad(boot.nLoads + 1, boot.initData)
    /\ UNCHANGED <<dev, webApp, mounted, nPasses, pc, status, request, ret,
                   hookState, hostFlags, style, call, hostLog, windowHost,
                   auth>>

\* request.get() of call k resolves: setData(res); finally setLoading(false)
LoadResolves(k) ==
    /\ boot.pc[k] = "wait"
    /\ boot' = [boot EXCEPT !.data = k, !.loading = FALSE, !.pc[k] = "done"]
    /\ UNCHANGED <<dev, webApp, mounted, nPasses, pc, status, request, ret,
                   hookState, hostFlags, style, call, hostLog, windowHost,
                   auth>>

\* request.get() of call k rejects: setError(e); setData(null); finally
LoadRejects(k) ==
    /\ boot.pc[k] = "wait"
    /\ boot' = [boot EXCEPT !.error = k, !.data = 0, !.loading = FALSE,
                            !.pc[k] = "done"]
    /\ UNCHANGED <<dev, webApp, mounted, nPasses, pc, status, request, ret,
                   hookState, hostFlags, style, call, hostLog, windowHost,
                   auth>>

NextBoot ==
    \/ \E d \in Payloads : BootInitData(d)
    \/ refresh
    \/ \E k \in Loads : LoadResolves(k)
    \/ \E k \in Loads : LoadRejects(k)

SpecBoot == Init /\ [][NextBoot]_vars

----------------------------------------------------------------------------
(* useAuthStore (unnamed/part_007): login, logout, updateUser               *)

AuthUsers ==
    { [id |-> i, email |-> "a@x", username |-> n] :
        i \in {"u1", "u2"}, n \in {"ann", "bob"} }

AuthTokens == {"t1", "t2"}

\* Partial<User>: "keep" marks a member the partial does not have
Partials ==
    { [id |-> i, email |-> e, username |-> n] :
        i \in {"keep", "u3"}, e \in {"keep", "new@x"}, n \in {"keep", "renamed"} }

\* { ...currentUser, ...userData }
Merge(u, d) ==
    [f \in DOMAIN u |-> IF d[f] = "keep" THEN u[f] ELSE d[f]]

login(u, t) == [user |-> u, tokens |-> t, isAuthenticated |-> TRUE]

logout == [user |-> AuthNull, tokens |-> "null", isAuthenticated |-> FALSE]

updateUserUnguarded(a, d) ==
    [a EXCEPT !.user = Merge(a.user, d)]

updateUser(a, d) ==
    IF a.user # AuthNull THEN [a EXCEPT !.user = Merge(a.user, d)] ELSE a

AuthStep(a) ==
    /\ auth' = a
    /\ UNCHANGED <<dev, webApp, mounted, nPasses, pc, status, request, ret,
                   hookState, hostFlags, style, call, hostLog, windowHost,
                   boot>>

AuthLogin(u, t) == AuthStep(login(u, t))

AuthLogout == AuthStep(logout)

AuthUpdateUser(d) == AuthStep(updateUser(auth, d))

NextAuth ==
    \/ \E u \in AuthUsers, t \in AuthTokens : AuthLogin(u, t)
    \/ AuthLogout
    \/ \E d \in Partials : AuthUpdateUser(d)

SpecAuth == Init /\ [][NextAuth]_vars

----------------------------------------------------------------------------
(* Properties *)

InFlight(p) == pc[p] \in {"timer", "fetch", "text", "json"}

Settled == nPasses >= 1 /\ \A p \in Passes : pc[p] \in {"idle", "done"}

\* pass p leaves its timer wait in this step
LeavesTimer(p) == pc[p] = "timer" /\ pc'[p] # "timer"

\* pass p runs to its end in this step
Ends(p) == pc[p] # "done" /\ pc'[p] = "done"

\* C1: isValidated is true only when the exposed user came from a successful
\* backend validation or from the synthetic substitution; a user read from the
\* host's unverified initDataUnsafe is never exposed with isValidated = TRUE.
C1_NoHostUserAsVerified ==
    isValidated => user.src \in {"backend", "mock"}

\* C2: with the host object absent isInTelegram() is false, no pass ever sends
\* a validation request, and each pass ends, on leaving its timer, NotInHost
\* (production) or in the synthetic-user bypass (development).
C2_HostAbsentNoValidation ==
    /\ [](~webApp.present =>
            /\ ~isInTelegram(webApp)
            /\ \A p \in Passes : request[p] = NoReq /\ pc[p] \in {"idle", "timer", "done"})
    /\ [][\A p \in Passes :
            (~webApp.present /\ LeavesTimer(p)) =>
                /\ pc'[p] = "done"
                /\ ~isLoading'
                /\ ~inTelegram'
                /\ IF dev
                   THEN user' = MockUser /\ isValidated' /\ error' = error
                   ELSE error' = ErrNotInTelegram /\ user' = user
                        /\ isValidated' = isValidated]_vars

C2_Witness ==
    /\ ~webApp.present
    /\ ~dev
    /\ pc[1] = "done"
    /\ request[1] = NoReq
    /\ error = ErrNotInTelegram
    /\ ~isLoading

\* C3 (as stated): for every non-empty payload of a present host, a pass calls
\* the validation endpoint with exactly that payload as the credential.
C3_EveryPayloadValidated ==
    [][\A p \in Passes :
        (webApp.present /\ webApp.initData # <<>> /\ LeavesTimer(p)) =>
            (pc'[p] = "fetch" /\ request'[p] = webApp.initData)]_vars

\* C3 (amended): when the host's initDataUnsafe also carries a user block, the
\* pass calls the endpoint with exactly the payload; and whatever request a
\* pass sends carries exactly the host's payload.
C3_PayloadSentVerbatim ==
    /\ [](\A p \in Passes : request[p] # NoReq =>
            (request[p] = webApp.initData /\ webApp.initData # <<>>))
    /\ [][\A p \in Passes :
            (webApp.present /\ webApp.initData # <<>> /\ webApp.unsafe = "user"
             /\ LeavesTimer(p)) =>
                (pc'[p] = "fetch" /\ request'[p] = webApp.initData)]_vars
    /\ [][\A p \in Passes :
            (webApp.present /\ webApp.initData # <<>> /\ webApp.unsafe # "user"
             /\ LeavesTimer(p)) =>
                (pc'[p] = "done" /\ request'[p] = NoReq /\ error' # NoError)]_vars

C3_Witness ==
    \E p \in Passes :
        /\ pc[p] = "fetch"
        /\ Len(webApp.initData) = 2
        /\ request[p] = webApp.initData

\* C4: validating an empty payload returns the missing-authorization-data
\* result without a network call, every time it is called.
C4_EmptyPayloadMissingData ==
    \A p \in Passes :
        (webApp.present /\ webApp.initData = <<>> /\ pc[p] = "returned") =>
            (ret[p] = Failure(ErrMissingInitData) /\ request[p] = NoReq)

C6_RejectedEndsFailed ==
    [][\A p \in Passes :
        (pc[p] = "text" /\ Ends(p)) =>
            (error' # NoError /\ ~isValidated' /\ (~dev => user'.src # "host"))]_vars

\* C7: a retry made while a pass is in flight starts no concurrent pass: at
\* most one pass is in flight at any time.
C7_OnePassInFlight ==
    Cardinality({p \in Passes : InFlight(p)}) <= 1

\* C8: retry() from a terminal state discards the earlier pass's results: the
\* step exposes no user, isValidated = FALSE and no error.
C8_RetryDiscardsResults ==
    [][(Settled /\ nPasses' = nPasses + 1) =>
        (user' = NoUser /\ ~isValidated' /\ error' = NoError)]_vars

\* C9: with the host absent the synthetic user is exposed only under the
\* development flag: then the settled state is Validated with user 123456789 /
\* "Test User" / "testuser" and no validation call; without the flag it is
\* NotInHost with no user and isValidated = FALSE.
C9_BypassGated ==
    (~webApp.present /\ Settled) =>
        IF dev
        THEN /\ user.id = 123456789
             /\ user.first_name = "Test User"
             /\ user.username = "testuser"
             /\ isValidated
             /\ \A p \in Passes : request[p] = NoReq
        ELSE /\ user = NoUser
             /\ ~isValidated
             /\ error = ErrNotInTelegram

\* pass p raises inside initializeTelegram()'s try in this step
Raises(p) ==
    \/ LeavesTimer(p) /\ isInTelegram(webApp) /\ getUser(webApp).threw
    \/ pc[p] = "json" /\ Ends(p) /\ ret'[p].kind = "null"

\* C10: every pass that has started reaches its end, isLoading is false when
\* it does, and a pass that raised ends in Error: error set, isValidated false.
C10_PassTerminates ==
    /\ \A p \in Passes : (pc[p] = "timer") ~> (pc[p] = "done")
    /\ [][\A p \in Passes : Ends(p) => ~isLoading']_vars
    /\ [][\A p \in Passes :
            Raises(p) => (Ends(p) /\ error' # NoError /\ ~isValidated')]_vars

\* C11: a validation request the backend never answers does not keep the pass
\* in FetchingValidation forever: every pass that has sent its request comes
\* to its end with a result of validateUser().
C11_HangTimesOut ==
    \A p \in Passes :
        (pc[p] = "fetch") ~> (pc[p] = "done" /\ ret[p].kind # "none")

\* C12: with the host present and its payload empty, the pass ends, without
\* calling the endpoint, in the missing-authorization-data error: not as
\* NotInHost and not through the development bypass to Validated.
C12_EmptyPayloadMissingAuth ==
    [][\A p \in Passes :
        (webApp.present /\ webApp.initData = <<>> /\ LeavesTimer(p)) =>
            /\ pc'[p] = "done"
            /\ request'[p] = NoReq
            /\ error' = ErrMissingInitData
            /\ ~isValidated']_vars

\* the hook was mounted and has been torn down
TornDown == ~mounted /\ nPasses >= 1

\* C13: once the hook is torn down, a pass whose validation request was
\* outstanding writes none of user, isValidated, error, isLoading when the
\* request completes.
C13_NoWriteAfterTeardown ==
    [][\A p \in Passes :
        (TornDown /\ pc[p] \in {"fetch", "text", "json"} /\ Ends(p)) =>
            UNCHANGED <<user, isValidated, error, isLoading>>]_vars

\* C14: when development exposes a user after a failed pass (the host's user
\* after a validation failure, the debug user after an exception), the state
\* reports the failure: isValidated is false and, once nothing is loading,
\* error is set; and such a user is exposed under the development flag only.
C14_DevUserReportsFailure ==
    /\ [](user.src \in {"host", "debug"} =>
            (dev /\ ~isValidated /\ (~isLoading => error # NoError)))
    /\ [][\A p \in Passes :
            (Ends(p) /\ user'.src \in {"host", "debug"}) =>
                (error' # NoError /\ ~isValidated' /\ ~isLoading'
                 /\ Home' = "DebugPanel+MainContent")]_vars

C14_Witness ==
    \E p \in Passes :
        /\ dev
        /\ pc[p] = "done"
        /\ status[p] = 401
        /\ user = HostUser
        /\ error = ServerError(401)
        /\ ~isValidated
        /\ \E q \in Passes : pc[q] = "done" /\ ret[q].valid = "true"

\* C15: in production the page renders MainContent only when the hook is
\* Validated, and renders the error screen in every other settled state.
C15_MainContentOnlyValidated ==
    (~dev /\ Settled) =>
        /\ Home \in {"MainContent", "ErrorScreen"}
        /\ Home = "MainContent" => isValidated

\* C16: applying an empty theme sets the six display variables to #ffffff,
\* #000000, #999999, #0088cc, #0088cc, #ffffff; a theme that defines only
\* bg_color changes the background variable alone.
C16_ThemeDefaults ==
    (call.op = "applyTheme" /\ webApp.present /\ webApp.themeDefined
     /\ webApp.theme \in {EmptyTheme, BgOnlyTheme}) =>
        /\ style["--tg-bg-color"] =
              IF webApp.theme = EmptyTheme THEN "#ffffff" ELSE "#123456"
        /\ style["--tg-text-color"] = "#000000"
        /\ style["--tg-hint-color"] = "#999999"
        /\ style["--tg-link-color"] = "#0088cc"
        /\ style["--tg-button-color"] = "#0088cc"
        /\ style["--tg-button-text-color"] = "#ffffff"

C16_Witness ==
    /\ call.op = "applyTheme"
    /\ webApp.theme = BgOnlyTheme
    /\ style["--tg-bg-color"] = "#123456"
    /\ style["--tg-link-color"] = "#0088cc"

\* C17: applyTheme() never throws, writes nothing when the host or its
\* themeParams is absent, and applied a second time leaves every display
\* variable as the first application set it.
C17_ApplyThemeIdempotent ==
    /\ [](call.op = "applyTheme" => ~call.threw)
    /\ [][call'.op = "applyTheme" =>
            /\ (~webApp.present \/ ~webApp.themeDefined) => style' = style
            /\ call'.n >= 2 => style' = style]_vars

C17_Witness ==
    /\ call.op = "applyTheme"
    /\ call.n = 2
    /\ webApp.theme = DarkTheme
    /\ style["body.backgroundColor"] = "#17212b"

\* C18: no bridge operation raises, whatever the host: absent, lacking
\* initDataUnsafe, or with methods that throw.
C18_NoOperationRaises ==
    ~call.threw

\* call p of validateUser() returns in this step
Returns(p) == pc[p] # "returned" /\ pc'[p] = "returned"

\* C19: validateUser() always returns a result; a network failure,
\* a non-2xx response and an unparsable body each give valid = false with an
\* error message, and every non-2xx response's result carries its status.
C19_FailuresCarryStatus ==
    [][\A p \in Passes :
        /\ (pc[p] = "fetch" /\ Returns(p)) =>
                (ret'[p].valid = "false" /\ ret'[p].error # NoError)
        /\ (pc[p] = "json" /\ Returns(p) /\ ret'[p] \notin Bodies) =>
                (ret'[p].valid = "false" /\ ret'[p].error # NoError)
        /\ (pc[p] = "text" /\ Returns(p)) =>
                ret'[p] = Failure(ServerError(status[p]))]_vars

\* C20: a 2xx response whose body has no user block ends the pass in failure:
\* error set, isValidated false, isLoading false.
C20_NoUserBlockFails ==
    [][\A p \in Passes :
        (pc[p] = "json" /\ Ends(p) /\ ret'[p] \in Bodies
         /\ ret'[p].user = NoUser) =>
            (error' # NoError /\ ~isValidated' /\ ~isLoading')]_vars

\* C21: in every settled state that is not Validated (NotInHost,
\* ValidationFailed, Error: an error is set) the rendered page offers retry,
\* in development and in production.
C21_RetryOffered ==
    (Settled /\ error # NoError) => RetryOffered

\* the error texts of initializeTelegram()'s catch: the hook's Error state
InitErrors == {InitError(ErrTypeError), InitError(ErrFailedToFetch)}

\* C22: a pass whose validation was rejected by the server or was malformed
\* ends ValidationFailed, a pass whose call failed at the network level ends
\* in Error, the state the hook's catch publishes.
C22_TransportFailureIsError ==
    [][\A p \in Passes :
        /\ (pc[p] = "text" /\ Ends(p) /\ ret'[p] = Failure(ServerError(status[p]))) =>
                (error' = ServerError(status[p]) /\ error' \notin InitErrors)
        /\ (pc[p] = "fetch" /\ Ends(p)) =>
                (error' \in InitErrors /\ (dev => user' = DebugUser))]_vars

\* the place of call c in log l, 0 when l has no c
Pos(l, c) ==
    IF \E i \in 1..Len(l) : l[i] = c
    THEN CHOOSE i \in 1..Len(l) : l[i] = c /\ \A j \in 1..(i - 1) : l[j] # c
    ELSE 0

\* C23 (as stated): a pass invokes the host's ready, expand and
\* enableClosingConfirmation only when it has found the host present (host
\* object and non-empty payload), then applyTheme, then reads the payload, all
\* before the validation call.
C23_HostEffectsAfterPresence ==
    \A p \in Passes :
        LET l == hostLog[p] IN
        /\ Pos(l, "ready") > 0 => isInTelegram(webApp)
        /\ Pos(l, "applyTheme") > 0 =>
              (Pos(l, "ready") > 0 /\ Pos(l, "ready") < Pos(l, "applyTheme"))
        /\ Pos(l, "validateUser") > 0 =>
              (Pos(l, "getInitData") > 0
               /\ Pos(l, "getInitData") < Pos(l, "validateUser"))

\* C23 (amended): a pass invokes ready, expand and enableClosingConfirmation,
\* in this order and before anything else, exactly when the host object
\* exists, payload or not; applyTheme and the payload read follow, in this
\* order, only when the payload is non-empty; the validation call comes last,
\* and a request is sent only by a pass that made all these calls.
C23_HostEffectsOrdered ==
    \A p \in Passes :
        LET l == hostLog[p] IN
        /\ pc[p] \in {"idle", "timer"} => l = <<>>
        /\ pc[p] \notin {"idle", "timer"} =>
              /\ Pos(l, "ready") > 0 <=> webApp.present
              /\ webApp.present =>
                    (Pos(l, "ready") = 1 /\ Pos(l, "expand") = 2
                     /\ Pos(l, "enableClosingConfirmation") = 3
                     /\ hostFlags.ready /\ hostFlags.expanded
                     /\ hostFlags.closingConfirmation)
              /\ Pos(l, "applyTheme") > 0 <=> isInTelegram(webApp)
              /\ isInTelegram(webApp) =>
                    (Pos(l, "enableClosingConfirmation") < Pos(l, "applyTheme")
                     /\ Pos(l, "applyTheme") < Pos(l, "getInitData"))
              /\ Pos(l, "validateUser") > 0 =>
                    (Pos(l, "validateUser") = Len(l)
                     /\ Pos(l, "getInitData") < Pos(l, "validateUser"))
              /\ request[p] # NoReq => Pos(l, "validateUser") > 0

C23_Witness ==
    \E p \in Passes :
        /\ pc[p] = "fetch"
        /\ request[p] = <<"b", "a">>
        /\ hostLog[p] = <<"ready", "expand", "enableClosingConfirmation",
                          "isInTelegram", "applyTheme", "getInitData",
                          "getUser", "validateUser">>

\* C24: mounting starts exactly one pass, and with no retry the validation
\* endpoint is called at most once.
C24_OnePassPerMount ==
    /\ mounted => nPasses = 1
    /\ Cardinality({p \in Passes : request[p] # NoReq}) <= 1

\* C25: in every settled state the exposed result is one BootstrapResult:
\* isValidated implies no error and a user, and an error implies isValidated
\* false.
C25_OneBootstrapResult ==
    Settled =>
        /\ isValidated => (error = NoError /\ user # NoUser)
        /\ error # NoError => ~isValidated

\* C26: whenever the hook has settled Validated, the development bypass for an
\* absent host included, the page renders the main content.
C26_ValidatedShowsMain ==
    (Settled /\ isValidated /\ error = NoError /\ user # NoUser) =>
        Home = "MainContent"

\* C27: a pass that leaves its timer when window.Telegram.WebApp is present
\* with a payload finds the host present, also when the host object arrived
\* after the singleton was built.
C27_LateHostFound ==
    [][\A p \in Passes :
        (LeavesTimer(p) /\ isInTelegram(windowHost)) =>
            (inTelegram' /\ error' # ErrNotInTelegram)]_vars

\* every load() call made so far has settled
BootSettled == boot.nLoads >= 1 /\ \A k \in Loads : boot.pc[k] # "wait"

\* C28: once every load() has settled, useBootstrap's data and error are
\* never both set.
C28_DataXorError ==
    BootSettled => ~(boot.data # 0 /\ boot.error # 0)

\* C29: once every request has settled, the exposed data or error is the
\* outcome of the most recent load(), sent with the most recent initData; and
\* loading is false only when no request is in flight.
C29_LatestLoadWins ==
    /\ BootSettled =>
          /\ boot.data # 0 => boot.data = boot.nLoads
          /\ boot.error # 0 => boot.error = boot.nLoads
          /\ boot.initData # <<>> => boot.sent[boot.nLoads] = boot.initData
    /\ (\E k \in Loads : boot.pc[k] = "wait") => boot.loading

\* C30: after any sequence of login, logout and updateUser, isAuthenticated
\* is true exactly when user and tokens are both non-null; and from the
\* logged-out state a step that does not log in (updateUser, logout) leaves
\* user, tokens and isAuthenticated unchanged.
C30_AuthenticatedIffUserAndTokens ==
    /\ [](auth.isAuthenticated <=>
            (auth.user # AuthNull /\ auth.tokens # "null"))
    /\ [](auth.user = AuthNull <=> auth.tokens = "null")
    /\ [][(~auth.isAuthenticated /\ ~auth'.isAuthenticated) => auth' = auth]_vars

C30_Witness ==
    /\ auth.isAuthenticated
    /\ auth.tokens = "t2"
    /\ auth.user = [id |-> "u1", email |-> "new@x", username |-> "renamed"]

====
